---- MODULE Spec2Model ----
(***************************************************************************)
(* A model of the linger-core tree-walking evaluator                       *)
(* (src/src/interpreter.rs): interp_statement and interp_expression as     *)
(* recursive operators over statement/expression trees, the Environment    *)
(* they thread, the output sink written by print, and a driver that runs   *)
(* the statements of the entry block one at a time.                        *)
(*                                                                         *)
(* The Environment type lives in environment.rs, which is not among the    *)
(* sources; its operations are modelled from sections 3 and 4.1 of the     *)
(* specification.  Num values are modelled as integers.                    *)
(***************************************************************************)
EXTENDS Integers, Sequences, FiniteSets, TLC

VARIABLES
    outer,        \* the environment the entry statement was called with
    env,          \* block_env of the entry Block (its working copy)
    out,          \* the output sink: one element per print call
    pc,           \* "run" | "done" | "error" | "panic" (the process aborted)
    progErr,      \* the RuntimeError the program failed with (NoErr: none)
    constPolicy,  \* what reassign does to a Constant binding: "reject" | "allow"
    steps,        \* statements of the entry block executed so far
    pre,          \* env before the statement executed last
    preOut,       \* out before the statement executed last
    stmt,         \* the statement executed last
    res           \* its result: [value, cf, err]

vars == <<outer, env, out, pc, progErr, constPolicy, steps, pre, preOut, stmt, res>>

-----------------------------------------------------------------------------
(* Bounds of the model *)

\* statements of the entry block that one run executes
MaxSteps == 3
\* iterations after which a While that has not ended is cut off
MaxIter == 4
\* largest numeric literal of the generated programs
MaxNum == 2
\* longest list the generated programs build
MaxLen == 3
\* most arguments the generated calls pass
MaxArgs == 2

-----------------------------------------------------------------------------
(* Values: interpreter.rs, enum Value *)

Num(n) == [tag |-> "Num", n |-> n]
Bool(b) == [tag |-> "Bool", b |-> b]
Str(s) == [tag |-> "Str", s |-> s]
Proc(params, body, penv) == [tag |-> "Proc", params |-> params, body |-> body, env |-> penv]
List(items) == [tag |-> "List", items |-> items]
Nil == [tag |-> "Nil"]

RECURSIVE join(_, _)
\* Vec<String>::join(sep)
join(strs, sep) ==
    IF Len(strs) = 0 THEN ""
    ELSE IF Len(strs) = 1 THEN strs[1]
    ELSE strs[1] \o sep \o join(Tail(strs), sep)

RECURSIVE to_string(_)
\* impl fmt::Display for Value
to_string(v) ==
    CASE v.tag = "Num" -> ToString(v.n)
      [] v.tag = "Bool" -> IF v.b THEN "true" ELSE "false"
      [] v.tag = "Nil" -> "nil"
      [] v.tag = "Str" -> v.s
      [] v.tag = "Proc" -> "<lambda>"
      [] v.tag = "List" ->
            "[" \o join([i \in 1..Len(v.items) |-> to_string(v.items[i])], ", ") \o "]"

-----------------------------------------------------------------------------
(* Errors: the RuntimeError kinds interpreter.rs constructs *)

NoErr == [kind |-> "None"]
UnknownVariable(id) == [kind |-> "UnknownVariable", id |-> id]
BadArg(v) == [kind |-> "BadArg", arg |-> v]
BadArgs(vs) == [kind |-> "BadArgs", args |-> vs]
ArgMismatch(name, a, b) == [kind |-> "ArgMismatch", name |-> name, first |-> a, second |-> b]
BadCondition(v) == [kind |-> "BadCondition", arg |-> v]
IndexOutOfBounds(index) == [kind |-> "IndexOutOfBounds", index |-> index]
ExpectedInteger(s) == [kind |-> "ExpectedInteger", s |-> s]
ExpectedList(s) == [kind |-> "ExpectedList", s |-> s]
NotIndexable(s) == [kind |-> "NotIndexable", s |-> s]
BreakNotInLoop == [kind |-> "BreakNotInLoop"]
ContinueNotInLoop == [kind |-> "ContinueNotInLoop"]
InvalidAssignmentTarget == [kind |-> "InvalidAssignmentTarget"]
UnaryAsBinary(op) == [kind |-> "UnaryAsBinary", op |-> op]
BinaryAsUnary(op) == [kind |-> "BinaryAsUnary", op |-> op]
\* the error of a rejected reassignment of a Constant binding (spec section 9)
ConstantReassign(id) == [kind |-> "ConstantReassign", id |-> id]
\* not a RuntimeError: the process aborts (todo!(), an arithmetic overflow
\* or a slice index out of range); like an Err it ends every enclosing call
Panic == [kind |-> "Panic"]
\* not an error of the program: a While cut off after MaxIter iterations
CutOff == [kind |-> "CutOff"]
\* not an error of the program: an f64 quotient that is not an integer
Unmodelled == [kind |-> "Unmodelled"]

\* impl fmt::Display for LingerError, the RuntimeError::ArgMismatch arm:
\* the second field is printed as the actual count, the third as the expected
ArgMismatchMessage(err) ==
    "procedure " \o err.name \o " expected " \o ToString(err.second)
        \o " args, instead got " \o ToString(err.first)

IsOk(r) == r.err = NoErr

-----------------------------------------------------------------------------
(* Environment: a mapping from names to entries [value, mut]               *)
(* (environment.rs is not among the sources; spec sections 3 and 4.1).     *)
(* interpreter.rs builds an Entry as (value, AssignmentType, Mutability);  *)
(* the binding entry of spec section 3 is (value, mutability), and the     *)
(* merge of section 4.1 compares stored values, so no AssignmentType is    *)
(* kept here.                                                              *)

Entry(v, m) == [value |-> v, mut |-> m]

\* Environment::new with no top-level procedures
EnvNew == [n \in {} |-> Entry(Nil, "Mutable")]

Bound(e, id) == id \in DOMAIN e

\* declare: a new binding that shadows any existing one of that name
EnvInsert(e, id, entry) ==
    [n \in (DOMAIN e) \cup {id} |-> IF n = id THEN entry ELSE e[n]]

insert_new_mutable_value(e, id, v) == EnvInsert(e, id, Entry(v, "Mutable"))

insert_new_constant_value(e, id, v) == EnvInsert(e, id, Entry(v, "Constant"))

\* lookup: [value, err]
get(e, id) ==
    IF Bound(e, id) THEN [value |-> e[id].value, err |-> NoErr]
    ELSE [value |-> Nil, err |-> UnknownVariable(id)]

\* reassign: [env, err]
reassign(e, id, v) ==
    IF ~Bound(e, id) THEN [env |-> e, err |-> UnknownVariable(id)]
    ELSE IF e[id].mut = "Constant" /\ constPolicy = "reject"
        THEN [env |-> e, err |-> ConstantReassign(id)]
    ELSE [env |-> [e EXCEPT ![id].value = v], err |-> NoErr]

RECURSIVE extend(_, _)
\* extend: the receiver's copy with each (name, entry) added, in order
extend(e, bindings) ==
    IF Len(bindings) = 0 THEN e
    ELSE extend(EnvInsert(e, bindings[1][1], bindings[1][2]), Tail(bindings))

\* mergeReassignments: names bound in both whose stored value differs take
\* the child's value; names of the child alone are ignored
update_reassigned_entries(e, child) ==
    [n \in DOMAIN e |->
        IF Bound(child, n) /\ child[n].value # e[n].value
        THEN [e[n] EXCEPT !.value = child[n].value]
        ELSE e[n]]

-----------------------------------------------------------------------------
(* Statement and expression trees, as interp_statement and                 *)
(* interp_expression match on them                                         *)

ENil == [k |-> "Nil"]
ENum(n) == [k |-> "Num", n |-> n]
EBool(b) == [k |-> "Bool", b |-> b]
EStr(s) == [k |-> "Str", s |-> s]
ELambda(params, body) == [k |-> "Lambda", params |-> params, body |-> body]
EVar(id) == [k |-> "Var", id |-> id]
EBinary(op, left, right) == [k |-> "Binary", op |-> op, left |-> left, right |-> right]
EUnary(op, operand) == [k |-> "Unary", op |-> op, operand |-> operand]
ECall(f_expr, args) == [k |-> "Call", f |-> f_expr, args |-> args]
EPrimitiveCall(builtin, args) == [k |-> "PrimitiveCall", builtin |-> builtin, args |-> args]
EIndex(indexable_expr, index_expr) ==
    [k |-> "Index", indexable |-> indexable_expr, index |-> index_expr]

SExpr(e) == [k |-> "Expr", e |-> e]
SLet(id, e) == [k |-> "Let", id |-> id, e |-> e]
SConst(id, e) == [k |-> "Const", id |-> id, e |-> e]
SAssign(id, e) == [k |-> "Assign", id |-> id, e |-> e]
\* els is <<>> (None) or <<statement>> (Some)
SIf(cond, then, els) == [k |-> "If", cond |-> cond, then |-> then, els |-> els]
SWhile(cond, body) == [k |-> "While", cond |-> cond, body |-> body]
\* expr_option is <<>> (None) or <<expr>> (Some)
SReturn(expr_option) == [k |-> "Return", expr_option |-> expr_option]
SBreak == [k |-> "Break"]
SContinue == [k |-> "Continue"]
SBlock(statements) == [k |-> "Block", statements |-> statements]

-----------------------------------------------------------------------------
(* Results.  A result carries the environment and the output sink as the   *)
(* call left them (env is a &mut, written in place), also on an error.     *)

\* Result<Value, RuntimeError> of interp_expression
ER(e, o, v, err) == [env |-> e, out |-> o, value |-> v, err |-> err]

\* Result<(Value, ControlFlow), RuntimeError> of interp_statement
SR(e, o, v, cf, err) == [env |-> e, out |-> o, value |-> v, cf |-> cf, err |-> err]

\* the match arms of the strict binary operators, on two evaluated operands
BinaryOp(op, l, r) ==
    LET nums == l.tag = "Num" /\ r.tag = "Num"
        bools == l.tag = "Bool" /\ r.tag = "Bool"
        ok(v) == [value |-> v, err |-> NoErr]
        bad(err) == [value |-> Nil, err |-> err]
        first == IF l.tag = "Num" THEN BadArg(r) ELSE BadArg(l)
    IN CASE op = "Plus" ->
               IF nums THEN ok(Num(l.n + r.n))
               ELSE IF l.tag = "Str" /\ r.tag = "Str" THEN ok(Str(l.s \o r.s))
               ELSE IF l.tag = "List" /\ r.tag = "List" THEN ok(List(l.items \o r.items))
               ELSE bad(first)
         [] op = "Minus" -> IF nums THEN ok(Num(l.n - r.n)) ELSE bad(first)
         [] op = "Eq" ->
               IF nums THEN ok(Bool(l.n = r.n))
               ELSE IF bools THEN ok(Bool(l.b = r.b))
               ELSE bad(BadArgs(<<l, r>>))
         [] op = "Ne" ->
               IF nums THEN ok(Bool(l.n # r.n))
               ELSE IF bools THEN ok(Bool(l.b # r.b))
               ELSE bad(BadArgs(<<l, r>>))
         [] op = "LT" -> IF nums THEN ok(Bool(l.n < r.n)) ELSE bad(BadArgs(<<l, r>>))
         [] op = "GT" -> IF nums THEN ok(Bool(l.n > r.n)) ELSE bad(BadArgs(<<l, r>>))
         [] op = "LTE" -> IF nums THEN ok(Bool(l.n <= r.n)) ELSE bad(BadArgs(<<l, r>>))
         [] op = "GTE" -> IF nums THEN ok(Bool(l.n >= r.n)) ELSE bad(BadArgs(<<l, r>>))
         [] op = "Times" -> IF nums THEN ok(Num(l.n * r.n)) ELSE bad(BadArgs(<<l, r>>))
         [] op = "Mod" ->
               IF ~nums THEN bad(BadArgs(<<l, r>>))
               ELSE IF l.n >= 0 /\ r.n > 0 THEN ok(Num(l.n % r.n))
               ELSE bad(Unmodelled)
         [] op = "Div" ->
               IF ~nums THEN bad(BadArgs(<<l, r>>))
               ELSE IF r.n > 0 /\ l.n % r.n = 0 THEN ok(Num(l.n \div r.n))
               ELSE bad(Unmodelled)
         [] OTHER -> bad(UnaryAsBinary(op))

\* the operators interp_expression evaluates strictly, both operands first
StrictOps ==
    {"Plus", "Minus", "Eq", "Ne", "LT", "GT", "LTE", "GTE", "Times", "Mod", "Div"}

\* Expr::Index on a list, the index evaluated to v: [value, err].
\* `index as usize > list.len() - 1` is computed on usize: for the empty
\* list the subtraction overflows, which aborts a debug build; a release
\* build wraps to usize::MAX, the test is false and list[index] aborts
IndexList(list, v) ==
    IF v.tag # "Num" THEN [value |-> Nil, err |-> ExpectedInteger(to_string(v))]
    ELSE IF v.n < 0 THEN [value |-> Nil, err |-> IndexOutOfBounds(v.n)]
    ELSE IF Len(list) = 0 THEN [value |-> Nil, err |-> Panic]
    ELSE IF v.n > Len(list) - 1 THEN [value |-> Nil, err |-> IndexOutOfBounds(v.n)]
    ELSE [value |-> list[v.n + 1], err |-> NoErr]

\* the name an ArgMismatch of a builtin carries
BuiltinName(builtin) == IF builtin = "IsEmpty" THEN "is_empty" ELSE "is_nil"

\* is_empty and is_nil on the evaluated argument: [value, err]
BuiltinTest(builtin, v) ==
    IF builtin = "IsNil" THEN [value |-> Bool(v.tag = "Nil"), err |-> NoErr]
    ELSE IF v.tag = "List" THEN [value |-> Bool(Len(v.items) = 0), err |-> NoErr]
    ELSE [value |-> Nil, err |-> ExpectedList(to_string(v))]

\* IncDec with the post-forms returning the new value too
IncDec_PostReturnsNew(op) ==
    CASE op = "PreIncrement" -> [d |-> 1, new |-> TRUE]
      [] op = "PostIncrement" -> [d |-> 1, new |-> TRUE]
      [] op = "PreDecrement" -> [d |-> -1, new |-> TRUE]
      [] op = "PostDecrement" -> [d |-> -1, new |-> TRUE]

\* ++x, x++, --x, x--: [delta, returns the new value]
IncDec(op) ==
    CASE op = "PreIncrement" -> [d |-> 1, new |-> TRUE]
      [] op = "PostIncrement" -> [d |-> 1, new |-> FALSE]
      [] op = "PreDecrement" -> [d |-> -1, new |-> TRUE]
      [] op = "PostDecrement" -> [d |-> -1, new |-> FALSE]

IncDecOps == {"PreIncrement", "PostIncrement", "PreDecrement", "PostDecrement"}

\* f_name of a Call
CalleeName(f_expr) == IF f_expr.k = "Var" THEN f_expr.id ELSE "<lambda>"

\* param_bindings of a Call: each parameter with its argument, Constant
\* (and AssignmentType::Initialized, which the entries here do not keep)
ParamBindings(f_params, arg_values) ==
    [i \in 1..Len(f_params) |-> <<f_params[i], Entry(arg_values[i], "Constant")>>]

\* CallFrame with dynamic scoping: the caller's environment extended
CallFrame_Dynamic(caller_env, f_env, f_params, arg_values) ==
    extend(caller_env, ParamBindings(f_params, arg_values))

\* CallFrame with the caller's bindings visible under the captured ones
CallFrame_Fallback(caller_env, f_env, f_params, arg_values) ==
    extend([n \in DOMAIN caller_env \cup DOMAIN f_env |->
               IF n \in DOMAIN f_env THEN f_env[n] ELSE caller_env[n]],
           ParamBindings(f_params, arg_values))

\* the environment the body of a called Proc runs in
CallFrame(caller_env, f_env, f_params, arg_values) ==
    extend(f_env, ParamBindings(f_params, arg_values))

\* ShortCircuits for operators that always evaluate both operands
ShortCircuits_Never(op, b) == FALSE

\* whether `false && e` / `true || e` stops at the left operand
ShortCircuits(op, b) == IF op = "LogicOr" THEN b ELSE ~b

\* WhileOnBody handing a Break on to the enclosing statement
WhileOnBody_BreakEscapes(value, cf) ==
    CASE cf = "Return" -> [stop |-> TRUE, value |-> value, cf |-> "Return"]
      [] cf = "Break" -> [stop |-> TRUE, value |-> value, cf |-> "Break"]
      [] cf = "Normal" -> [stop |-> FALSE, value |-> Nil, cf |-> "Normal"]
      [] cf = "Continue" -> [stop |-> FALSE, value |-> Nil, cf |-> "Normal"]

\* WhileOnBody treating a Return as a Break: only the loop ends
WhileOnBody_ReturnBreaks(value, cf) ==
    CASE cf = "Return" -> [stop |-> TRUE, value |-> Nil, cf |-> "Normal"]
      [] cf = "Break" -> [stop |-> TRUE, value |-> Nil, cf |-> "Normal"]
      [] cf = "Normal" -> [stop |-> FALSE, value |-> Nil, cf |-> "Normal"]
      [] cf = "Continue" -> [stop |-> FALSE, value |-> Nil, cf |-> "Normal"]

\* what a While does with the (value, tag) of its body:
\* [stop, value, cf] (stop = FALSE: next iteration)
WhileOnBody(value, cf) ==
    CASE cf = "Return" -> [stop |-> TRUE, value |-> value, cf |-> "Return"]
      [] cf = "Break" -> [stop |-> TRUE, value |-> Nil, cf |-> "Normal"]
      [] cf = "Normal" -> [stop |-> FALSE, value |-> Nil, cf |-> "Normal"]
      [] cf = "Continue" -> [stop |-> FALSE, value |-> Nil, cf |-> "Normal"]

\* what a Block does with the tag of one of its statements:
\* "next" | "exit" (merge, then propagate) | an error
BlockOnTag(cf, in_loop) ==
    CASE cf = "Normal" -> [do |-> "next", err |-> NoErr]
      [] cf = "Return" -> [do |-> "exit", err |-> NoErr]
      [] cf = "Break" ->
            IF in_loop THEN [do |-> "exit", err |-> NoErr]
            ELSE [do |-> "fail", err |-> BreakNotInLoop]
      [] cf = "Continue" ->
            IF in_loop THEN [do |-> "exit", err |-> NoErr]
            ELSE [do |-> "fail", err |-> ContinueNotInLoop]

\* CallInLoop for a body run as if inside a loop
CallInLoop_True == TRUE

\* the in_loop a Call runs the body with
CallInLoop == FALSE

\* CallValue keeping the value of a Return only
CallValue_OfReturn(value, cf) == IF cf = "Return" THEN value ELSE Nil

\* the value of a Call from the (value, tag) of its body
CallValue(value, cf) == value

\* the one element of a singleton set.  Only({F(r) : r \in {E}}) is
\* LET r == E IN F(r), with E evaluated once
Only(S) == CHOOSE v \in S : TRUE

RECURSIVE interp_statement(_, _, _, _)
RECURSIVE interp_expression(_, _, _)
RECURSIVE EvalArgs(_, _, _)
RECURSIVE while_loop(_, _, _, _, _)
RECURSIVE block_loop(_, _, _, _, _, _)

\* the arguments of a Call or a print in order, stopping at the first error:
\* [env, out, values, err]
EvalArgs(e, o, args) ==
    IF Len(args) = 0 THEN [env |-> e, out |-> o, values |-> <<>>, err |-> NoErr]
    ELSE Only({
        IF ~IsOk(a)
        THEN [env |-> a.env, out |-> a.out, values |-> <<>>, err |-> a.err]
        ELSE Only({ [rest EXCEPT !.values = <<a.value>> \o rest.values]
                    : rest \in {EvalArgs(a.env, a.out, Tail(args))} })
        : a \in {interp_expression(e, o, args[1])} })

\* || and &&, the left operand l evaluated
LogicRight(expr, l) ==
    IF ~IsOk(l) THEN l
    ELSE IF l.value.tag # "Bool" THEN ER(l.env, l.out, Nil, BadArg(l.value))
    ELSE IF ShortCircuits(expr.op, l.value.b) THEN ER(l.env, l.out, Bool(l.value.b), NoErr)
    ELSE Only({
        IF ~IsOk(r) THEN r
        ELSE IF r.value.tag # "Bool" THEN ER(r.env, r.out, Nil, BadArg(r.value))
        ELSE ER(r.env, r.out, Bool(r.value.b), NoErr)
        : r \in {interp_expression(l.env, l.out, expr.right)} })

\* a strict binary operator, the left operand l evaluated
StrictRight(expr, l) ==
    IF ~IsOk(l) THEN l
    ELSE Only({
        IF ~IsOk(r) THEN r
        ELSE Only({ ER(r.env, r.out, b.value, b.err)
                    : b \in {BinaryOp(expr.op, l.value, r.value)} })
        : r \in {interp_expression(l.env, l.out, expr.right)} })

\* ++ and --, the operand (a Var) evaluated to v
IncDecApply(expr, v) ==
    IF ~IsOk(v) THEN v
    ELSE IF v.value.tag # "Num" THEN ER(v.env, v.out, Nil, BadArg(v.value))
    ELSE Only({
        IF w.err # NoErr THEN ER(w.env, v.out, Nil, w.err)
        ELSE ER(w.env, v.out,
                IF IncDec(expr.op).new THEN Num(v.value.n + IncDec(expr.op).d)
                ELSE Num(v.value.n),
                NoErr)
        : w \in {reassign(v.env, expr.operand.id, Num(v.value.n + IncDec(expr.op).d))} })

\* unary - and !, the operand evaluated to v
UnaryApply(expr, v) ==
    IF ~IsOk(v) THEN v
    ELSE IF expr.op = "Minus"
        THEN IF v.value.tag = "Num" THEN ER(v.env, v.out, Num(0 - v.value.n), NoErr)
             ELSE ER(v.env, v.out, Nil, BadArg(v.value))
    ELSE IF v.value.tag = "Bool" THEN ER(v.env, v.out, Bool(~v.value.b), NoErr)
    ELSE ER(v.env, v.out, Nil, BadArg(v.value))

\* CallApply writing the body's reassignments back to the caller, as a Block
\* does
CallApply_WriteBack(expr, f) ==
    IF ~IsOk(f) THEN f
    ELSE IF f.value.tag # "Proc" THEN ER(f.env, f.out, Nil, BadArg(f.value))
    ELSE IF Len(expr.args) # Len(f.value.params)
        THEN ER(f.env, f.out, Nil,
                ArgMismatch(CalleeName(expr.f), Len(f.value.params), Len(expr.args)))
    ELSE Only({
        IF ~IsOk(a) THEN ER(a.env, a.out, Nil, a.err)
        ELSE Only({
            IF ~IsOk(b) THEN ER(a.env, b.out, Nil, b.err)
            ELSE ER(update_reassigned_entries(a.env, b.env), b.out,
                    CallValue(b.value, b.cf), NoErr)
            : b \in {interp_statement(
                         CallFrame(a.env, f.value.env, f.value.params, a.values),
                         a.out, f.value.body, CallInLoop)} })
        : a \in {EvalArgs(f.env, f.out, expr.args)} })

\* a Call, the callee expression evaluated to f
CallApply(expr, f) ==
    IF ~IsOk(f) THEN f
    ELSE IF f.value.tag # "Proc" THEN ER(f.env, f.out, Nil, BadArg(f.value))
    ELSE IF Len(expr.args) # Len(f.value.params)
        THEN ER(f.env, f.out, Nil,
                ArgMismatch(CalleeName(expr.f), Len(f.value.params), Len(expr.args)))
    ELSE Only({
        IF ~IsOk(a) THEN ER(a.env, a.out, Nil, a.err)
        ELSE Only({
            IF ~IsOk(b) THEN ER(a.env, b.out, Nil, b.err)
            ELSE ER(a.env, b.out, CallValue(b.value, b.cf), NoErr)
            : b \in {interp_statement(
                         CallFrame(a.env, f.value.env, f.value.params, a.values),
                         a.out, f.value.body, CallInLoop)} })
        : a \in {EvalArgs(f.env, f.out, expr.args)} })

\* print, the arguments evaluated
PrintApply(a) ==
    IF ~IsOk(a) THEN ER(a.env, a.out, Nil, a.err)
    ELSE ER(a.env,
            Append(a.out, join([i \in 1..Len(a.values) |-> to_string(a.values[i])], " ")),
            Nil, NoErr)

\* list, the arguments evaluated
ListApply(a) ==
    IF ~IsOk(a) THEN ER(a.env, a.out, Nil, a.err)
    ELSE ER(a.env, a.out, List(a.values), NoErr)

\* the index of an Expr::Index evaluated to i, on the list `list`
IndexApply(list, i) ==
    IF ~IsOk(i) THEN i
    ELSE ER(i.env, i.out, IndexList(list, i.value).value, IndexList(list, i.value).err)

\* an Expr::Index, the indexed expression evaluated to t
IndexTarget(expr, t) ==
    IF ~IsOk(t) THEN t
    ELSE IF t.value.tag = "List"
        THEN Only({IndexApply(t.value.items, i)
                   : i \in {interp_expression(t.env, t.out, expr.index)}})
    ELSE IF t.value.tag = "Str" THEN ER(t.env, t.out, Nil, Panic)
    ELSE ER(t.env, t.out, Nil, NotIndexable(to_string(t.value)))

interp_expression(e, o, expr) ==
    CASE expr.k = "Nil" -> ER(e, o, Nil, NoErr)
      [] expr.k = "Num" -> ER(e, o, Num(expr.n), NoErr)
      [] expr.k = "Bool" -> ER(e, o, Bool(expr.b), NoErr)
      [] expr.k = "Str" -> ER(e, o, Str(expr.s), NoErr)
      [] expr.k = "Lambda" -> ER(e, o, Proc(expr.params, expr.body, e), NoErr)
      [] expr.k = "Var" -> ER(e, o, get(e, expr.id).value, get(e, expr.id).err)
      [] expr.k = "Binary" /\ expr.op \in {"LogicOr", "LogicAnd"} ->
            Only({LogicRight(expr, l) : l \in {interp_expression(e, o, expr.left)}})
      [] expr.k = "Binary" /\ expr.op \notin {"LogicOr", "LogicAnd"} ->
            IF expr.op \notin StrictOps THEN ER(e, o, Nil, UnaryAsBinary(expr.op))
            ELSE Only({StrictRight(expr, l) : l \in {interp_expression(e, o, expr.left)}})
      [] expr.k = "Unary" /\ expr.op \in IncDecOps ->
            IF expr.operand.k # "Var" THEN ER(e, o, Nil, InvalidAssignmentTarget)
            ELSE Only({IncDecApply(expr, v) : v \in {interp_expression(e, o, expr.operand)}})
      [] expr.k = "Unary" /\ expr.op \notin IncDecOps ->
            IF expr.op \notin {"Minus", "LogicNot"} THEN ER(e, o, Nil, BinaryAsUnary(expr.op))
            ELSE Only({UnaryApply(expr, v) : v \in {interp_expression(e, o, expr.operand)}})
      [] expr.k = "Call" ->
            Only({CallApply(expr, f) : f \in {interp_expression(e, o, expr.f)}})
      [] expr.k = "PrimitiveCall" /\ expr.builtin = "Print" ->
            Only({PrintApply(a) : a \in {EvalArgs(e, o, expr.args)}})
      [] expr.k = "PrimitiveCall" /\ expr.builtin = "List" ->
            Only({ListApply(a) : a \in {EvalArgs(e, o, expr.args)}})
      [] expr.k = "PrimitiveCall" /\ expr.builtin \in {"IsEmpty", "IsNil"} ->
            IF Len(expr.args) > 1
            THEN ER(e, o, Nil, ArgMismatch(BuiltinName(expr.builtin), Len(expr.args), 1))
            ELSE IF Len(expr.args) = 0
                THEN ER(e, o, Nil, ArgMismatch(BuiltinName(expr.builtin), 0, 1))
            ELSE Only({
                IF ~IsOk(v) THEN v
                ELSE ER(v.env, v.out, BuiltinTest(expr.builtin, v.value).value,
                        BuiltinTest(expr.builtin, v.value).err)
                : v \in {interp_expression(e, o, expr.args[1])} })
      [] expr.k = "Index" ->
            Only({IndexTarget(expr, t) : t \in {interp_expression(e, o, expr.indexable)}})

\* one iteration of a While, the condition evaluated to c
WhileBody(c, cond_expr, while_block, fuel) ==
    IF ~IsOk(c) THEN SR(c.env, c.out, Nil, "Normal", c.err)
    ELSE IF c.value.tag # "Bool" THEN SR(c.env, c.out, Nil, "Normal", BadArg(c.value))
    ELSE IF ~c.value.b THEN SR(c.env, c.out, Nil, "Normal", NoErr)
    ELSE IF fuel = 0 THEN SR(c.env, c.out, Nil, "Normal", CutOff)
    ELSE Only({
        IF ~IsOk(b) THEN b
        ELSE IF WhileOnBody(b.value, b.cf).stop
            THEN SR(b.env, b.out, WhileOnBody(b.value, b.cf).value,
                    WhileOnBody(b.value, b.cf).cf, NoErr)
        ELSE while_loop(b.env, b.out, cond_expr, while_block, fuel - 1)
        : b \in {interp_statement(c.env, c.out, while_block, TRUE)} })

\* the loop of Statement::While, with `fuel` iterations left
while_loop(e, o, cond_expr, while_block, fuel) ==
    Only({WhileBody(c, cond_expr, while_block, fuel)
          : c \in {interp_expression(e, o, cond_expr)}})

\* BlockStep propagating an exit tag without the merge
BlockStep_ExitNoMerge(e, s, rest, in_loop) ==
    IF ~IsOk(s) THEN SR(e, s.out, Nil, "Normal", s.err)
    ELSE CASE BlockOnTag(s.cf, in_loop).do = "next" ->
                 block_loop(e, s.env, s.out, rest, s.value, in_loop)
           [] BlockOnTag(s.cf, in_loop).do = "exit" -> SR(e, s.out, s.value, s.cf, NoErr)
           [] BlockOnTag(s.cf, in_loop).do = "fail" ->
                 SR(e, s.out, Nil, "Normal", BlockOnTag(s.cf, in_loop).err)

\* a Block after one of its statements returned s; e is the environment the
\* Block was called with, rest the statements left
BlockStep(e, s, rest, in_loop) ==
    IF ~IsOk(s) THEN SR(e, s.out, Nil, "Normal", s.err)
    ELSE CASE BlockOnTag(s.cf, in_loop).do = "next" ->
                 block_loop(e, s.env, s.out, rest, s.value, in_loop)
           [] BlockOnTag(s.cf, in_loop).do = "exit" ->
                 SR(update_reassigned_entries(e, s.env), s.out, s.value, s.cf, NoErr)
           [] BlockOnTag(s.cf, in_loop).do = "fail" ->
                 SR(e, s.out, Nil, "Normal", BlockOnTag(s.cf, in_loop).err)

\* block_loop without the merge after the last statement
block_loop_NoMerge(e, block_env, o, statements, block_value, in_loop) ==
    IF Len(statements) = 0
    THEN SR(e, o, block_value, "Normal", NoErr)
    ELSE Only({BlockStep(e, s, Tail(statements), in_loop)
               : s \in {interp_statement(block_env, o, statements[1], in_loop)}})

\* block_loop running the statements in the caller's environment itself
block_loop_NoClone(e, block_env, o, statements, block_value, in_loop) ==
    IF Len(statements) = 0
    THEN SR(block_env, o, block_value, "Normal", NoErr)
    ELSE Only({BlockStep(e, s, Tail(statements), in_loop)
               : s \in {interp_statement(block_env, o, statements[1], in_loop)}})

\* the loop of Statement::Block over the statements left; block_env is the
\* working copy of e
block_loop(e, block_env, o, statements, block_value, in_loop) ==
    IF Len(statements) = 0
    THEN SR(update_reassigned_entries(e, block_env), o, block_value, "Normal", NoErr)
    ELSE Only({BlockStep(e, s, Tail(statements), in_loop)
               : s \in {interp_statement(block_env, o, statements[1], in_loop)}})

\* Let, Const, Assign, Expr and Return, the expression evaluated to v
OnValue(statement, v) ==
    IF ~IsOk(v) THEN SR(v.env, v.out, Nil, "Normal", v.err)
    ELSE CASE statement.k = "Let" ->
                 SR(insert_new_mutable_value(v.env, statement.id, v.value),
                    v.out, Nil, "Normal", NoErr)
           [] statement.k = "Const" ->
                 SR(insert_new_constant_value(v.env, statement.id, v.value),
                    v.out, Nil, "Normal", NoErr)
           [] statement.k = "Assign" ->
                 SR(reassign(v.env, statement.id, v.value).env, v.out, Nil, "Normal",
                    reassign(v.env, statement.id, v.value).err)
           [] statement.k = "Expr" -> SR(v.env, v.out, v.value, "Normal", NoErr)
           [] statement.k = "Return" -> SR(v.env, v.out, v.value, "Return", NoErr)

\* an If, the condition evaluated to c
Branch(statement, c, in_loop) ==
    IF ~IsOk(c) THEN SR(c.env, c.out, Nil, "Normal", c.err)
    ELSE IF c.value.tag # "Bool" THEN SR(c.env, c.out, Nil, "Normal", BadArg(c.value))
    ELSE IF c.value.b THEN interp_statement(c.env, c.out, statement.then, in_loop)
    ELSE IF Len(statement.els) = 1
        THEN interp_statement(c.env, c.out, statement.els[1], in_loop)
    ELSE SR(c.env, c.out, Nil, "Normal", NoErr)

interp_statement(e, o, statement, in_loop) ==
    CASE statement.k \in {"Expr", "Let", "Const", "Assign"} ->
            Only({OnValue(statement, v) : v \in {interp_expression(e, o, statement.e)}})
      [] statement.k = "If" ->
            Only({Branch(statement, c, in_loop)
                  : c \in {interp_expression(e, o, statement.cond)}})
      [] statement.k = "While" ->
            while_loop(e, o, statement.cond, statement.body, MaxIter)
      [] statement.k = "Return" ->
            IF Len(statement.expr_option) = 1
            THEN Only({OnValue(statement, v)
                       : v \in {interp_expression(e, o, statement.expr_option[1])}})
            ELSE SR(e, o, Nil, "Return", NoErr)
      [] statement.k = "Break" -> SR(e, o, Nil, "Break", NoErr)
      [] statement.k = "Continue" -> SR(e, o, Nil, "Continue", NoErr)
      [] statement.k = "Block" ->
            block_loop(e, e, o, statement.statements, Nil, in_loop)

-----------------------------------------------------------------------------
(* The programs: the statements the entry block is made of *)

Lits == 0..MaxNum

X == EVar("x")
Y == EVar("y")
Print1(e) == EPrimitiveCall("Print", <<e>>)
IsNil1(e) == EPrimitiveCall("IsNil", <<e>>)
Plus1(e) == EBinary("Plus", e, ENum(1))
PostInc(id) == EUnary("PostIncrement", EVar(id))
\* an expression that prints n and is Bool(b)
Says(n, b) == IF b THEN IsNil1(Print1(ENum(n))) ELSE EUnary("LogicNot", IsNil1(Print1(ENum(n))))

\* closures
LamReadX == ELambda(<<>>, SReturn(<<X>>))
LamBumpX == ELambda(<<>>, SBlock(<<SAssign("x", Plus1(X)), SReturn(<<X>>)>>))
LamIncX == ELambda(<<>>, SExpr(EUnary("PreIncrement", X)))
LamParamY == ELambda(<<"p">>, SReturn(<<EBinary("Plus", EVar("p"), Y)>>))
LamBreak == ELambda(<<>>, SBlock(<<SBreak>>))
LamContinue == ELambda(<<>>, SBlock(<<SExpr(Print1(ENum(5))), SContinue>>))
\* a return inside a loop, `depth` blocks deep, in a procedure body
RECURSIVE Nest(_, _)
Nest(s, depth) == IF depth = 0 THEN s ELSE SBlock(<<Nest(s, depth - 1)>>)
LamLoopReturn(depth) ==
    ELambda(<<>>, SBlock(<<
        SWhile(Says(0, TRUE),
               SBlock(<<SExpr(Print1(ENum(1))),
                        Nest(SReturn(<<ENum(7)>>), depth),
                        SExpr(Print1(ENum(2)))>>)),
        SExpr(Print1(ENum(3))),
        SReturn(<<ENum(8)>>)>>))
Depths == 0..2
Lambdas == {LamReadX, LamBumpX, LamIncX, LamParamY, LamBreak, LamContinue}

\* expressions with a side effect: a print, an increment, an error
Effects == {Says(9, TRUE), PostInc("x"), EVar("undefined")}
LogicOps == {"LogicAnd", "LogicOr"}
Lefts == {EBool(TRUE), EBool(FALSE), Says(4, TRUE), Says(4, FALSE)}

LetStmts ==
    {SLet("x", ENum(n)) : n \in Lits} \cup {SLet("y", ENum(1))}
    \cup {SLet("f", l) : l \in Lambdas}

ConstStmts == {SConst("y", ENum(0))}

AssignStmts ==
    {SAssign("x", ENum(n)) : n \in Lits} \cup {SAssign("x", Plus1(X)), SAssign("y", ENum(MaxNum))}

CallF == ECall(EVar("f"), <<>>)
CallF1 == ECall(EVar("f"), <<ENum(1)>>)

ExprStmts ==
    {SExpr(CallF), SExpr(CallF1), SExpr(PostInc("x")), SExpr(Print1(X)), SExpr(Y)}
    \cup {SExpr(EBinary(op, l, r)) : op \in LogicOps, l \in Lefts, r \in Effects}
    \cup {SExpr(EBinary(op, ENum(0), Says(9, TRUE))) : op \in LogicOps}
    \cup {SExpr(ECall(LamLoopReturn(d), <<>>)) : d \in Depths}

\* the loops
WhileBreak == SWhile(Says(0, TRUE), SBlock(<<SExpr(PostInc("x")), SBreak, SExpr(Print1(ENum(9)))>>))
WhileBareBreak == SWhile(EBool(TRUE), SBreak)
WhileIfBreak ==
    SWhile(Says(0, TRUE),
           SIf(EBinary("LT", X, ENum(MaxNum)), SBlock(<<SAssign("x", Plus1(X))>>), <<SBreak>>))
WhileContinue ==
    SWhile(EBinary("LogicAnd", Says(0, TRUE), EBinary("LT", X, ENum(MaxNum))),
           SBlock(<<SExpr(Print1(ENum(1))), SExpr(PostInc("x")), SContinue,
                    SExpr(Print1(ENum(9)))>>))
WhileNestedContinue ==
    SWhile(EBinary("LT", X, ENum(MaxNum)),
           SBlock(<<SExpr(PostInc("x")), SBlock(<<SContinue>>), SExpr(Print1(ENum(9)))>>))
WhileDeclBreak(w) == SWhile(EBool(TRUE), SBlock(<<SLet("y", ENum(w)), SBreak>>))
WhileDeclContinue ==
    SWhile(EBinary("LT", X, ENum(MaxNum)),
           SBlock(<<SExpr(PostInc("x")), SConst("y", ENum(0)), SContinue>>))
WhileCallBreak == SWhile(Says(0, TRUE), SBlock(<<SExpr(CallF), SExpr(Print1(ENum(6)))>>))
WhileReturn == SWhile(EBool(TRUE), SBlock(<<SReturn(<<X>>)>>))
WhileForever == SWhile(EBool(TRUE), SBlock(<<SExpr(PostInc("x"))>>))

WhileStmts ==
    {WhileBreak, WhileBareBreak, WhileIfBreak, WhileContinue, WhileNestedContinue,
     WhileCallBreak, WhileReturn, WhileForever}
    \cup {WhileDeclBreak(0), WhileDeclContinue}

IfStmts ==
    {SIf(EBinary("LT", X, ENum(1)), SAssign("x", ENum(MaxNum)), <<>>),
     SIf(EBinary("LT", X, ENum(1)), SLet("y", ENum(2)), <<SBreak>>),
     SIf(ENum(0), SBreak, <<>>)}

ReturnStmts == {SReturn(<<>>), SReturn(<<X>>)}

\* the blocks
BlockShadow(w) == SBlock(<<SLet("x", ENum(w)), SExpr(Print1(X))>>)
BlockAssign(w, depth) == Nest(SAssign("x", ENum(w)), depth)
BlockDeclare(w) == SBlock(<<SLet("y", ENum(w))>>)
BlockDeclareConst(w) == SBlock(<<SConst("y", ENum(w))>>)
BlockDeclareReturn(w) == SBlock(<<SLet("y", ENum(w)), SReturn(<<Y>>)>>)
BlockAssignCall(w) == SBlock(<<SAssign("x", ENum(w)), SReturn(<<CallF>>)>>)
BlockCallTwice == SBlock(<<SExpr(Print1(CallF)), SExpr(Print1(CallF))>>)
BlockBreak == SBlock(<<SAssign("x", ENum(MaxNum)), SBreak>>)
BlockContinue == SBlock(<<SAssign("x", ENum(MaxNum)), SContinue>>)
BlockDepths == 1..3

BlockStmts ==
    {BlockShadow(w) : w \in Lits}
    \cup {BlockAssign(w, d) : w \in Lits, d \in BlockDepths}
    \cup {BlockDeclare(w) : w \in Lits}
    \cup {BlockDeclareConst(0), BlockDeclareReturn(0)}
    \cup {BlockAssignCall(w) : w \in Lits}
    \cup {BlockCallTwice, BlockBreak, BlockContinue}

-----------------------------------------------------------------------------
(* The programs of the second specification: lists, builtins, operators    *)

\* the argument list 1, ..., 1 of length m
Args(m) == [i \in 1..m |-> ENum(1)]
\* list(10, 20, ...) of length n
ListLit(n) == EPrimitiveCall("List", [i \in 1..n |-> ENum(10 * i)])
L == EVar("l")
Counts == 0..MaxArgs
TestBuiltins == {"IsEmpty", "IsNil"}

OpsLambdas == {LamReadX, LamParamY}

OpsLetStmts ==
    {SLet("x", ENum(n)) : n \in Lits} \cup {SLet("x", EStr("a")), SLet("y", ENum(1))}
    \cup {SLet("l", ListLit(n)) : n \in 0..MaxLen}
    \cup {SLet("f", l) : l \in OpsLambdas}

\* calls of f, of a lambda and of the builtins with m arguments
CallStmts ==
    {SExpr(ECall(EVar("f"), Args(m))) : m \in Counts}
    \cup {SExpr(ECall(LamParamY, Args(m))) : m \in Counts}
    \cup {SExpr(EPrimitiveCall(b, Args(m))) : b \in TestBuiltins, m \in Counts}
    \cup {SExpr(EPrimitiveCall(b, <<L>>)) : b \in TestBuiltins}

\* the index expression for the integer i: a literal, negated below zero
Idx(i) == IF i < 0 THEN EUnary("Minus", ENum(0 - i)) ELSE ENum(i)
Indices == (0 - 1)..MaxLen

\* l[i], l["a"], x[0] (x a Str or a Num) and list(10, 20)[1]
IndexStmts ==
    {SExpr(EIndex(L, Idx(i))) : i \in Indices}
    \cup {SExpr(EIndex(L, EStr("a"))), SExpr(EIndex(X, ENum(0))),
          SExpr(EIndex(ListLit(2), ENum(1)))}

\* blocks that exit early: x = x + 1, the exiting statement, then statements
\* that must not run
BumpX == SAssign("x", Plus1(X))
ExitBody(exit) == SBlock(<<BumpX, exit, BumpX, SExpr(Print1(ENum(9)))>>)
ExitReturn == ExitBody(SReturn(<<X>>))
ExitNestedReturn == SBlock(<<BumpX, ExitBody(SReturn(<<X>>)), BumpX, SExpr(Print1(ENum(9)))>>)
ExitBreak == SWhile(EBool(TRUE), ExitBody(SBreak))
ExitContinue == SWhile(EBinary("LT", X, ENum(MaxNum)), ExitBody(SContinue))
ExitStmts == {ExitReturn, ExitNestedReturn, ExitBreak, ExitContinue}

\* procedures whose body is a bare statement, not a Block, one per tag
LamBareBreak == ELambda(<<>>, SBreak)
LamBareContinue == ELambda(<<>>, SContinue)
LamIfBreak == ELambda(<<>>, SIf(EBool(TRUE), SBreak, <<>>))
LamBareExpr == ELambda(<<>>, SExpr(ENum(7)))
LamBareReturn == ELambda(<<>>, SReturn(<<ENum(7)>>))
TagLambdas == {LamBareBreak, LamBareContinue, LamIfBreak, LamBareExpr, LamBareReturn}
\* a loop in the caller that calls the procedure in its body
WhileCallTag(lam) ==
    SWhile(EBinary("LT", X, ENum(MaxNum)),
           SBlock(<<SExpr(PostInc("x")), SExpr(Print1(ECall(lam, <<>>))),
                    SExpr(Print1(ENum(6)))>>))
TagStmts ==
    {SExpr(ECall(lam, <<>>)) : lam \in TagLambdas}
    \cup {WhileCallTag(lam) : lam \in TagLambdas}

\* conditions of an If and a While: Bool and non-Bool values, one with a
\* side effect
Conds == {EBool(TRUE), EBool(FALSE), ENum(0), EStr("a"), ENil, PostInc("x"), L}
CondIf(c) == SIf(c, SExpr(Print1(ENum(1))), <<SExpr(Print1(ENum(2)))>>)
CondWhile(c) == SWhile(c, SBlock(<<SExpr(Print1(ENum(3))), SBreak>>))
CondStmts == {CondIf(c) : c \in Conds} \cup {CondWhile(c) : c \in Conds}

\* the arithmetic operators on literal operands of each kind
ArithOps == {"Plus", "Minus", "Times", "Div", "Mod"}
Operands == {ENum(2), EStr("a"), EBool(TRUE), ListLit(1)}
ArithStmts == {SExpr(EBinary(op, l, r)) : op \in ArithOps, l \in Operands, r \in Operands}

\* ++ and -- on the variable x and on an operand that is not a variable and
\* would print
NotAVar == Print1(ENum(9))
IncDecStmts ==
    {SExpr(EUnary(op, X)) : op \in IncDecOps}
    \cup {SExpr(EUnary(op, NotAVar)) : op \in IncDecOps}

\* blocks that declare a shadowing x and then write to it, left with each
\* tag; and a block that reassigns the outer x before it declares the shadow
ShadowWrites(exit) ==
    <<SLet("x", ENum(1)), SAssign("x", ENum(0)), SExpr(PostInc("x")), SExpr(PostInc("x"))>>
        \o exit
ShadowNormal == SBlock(ShadowWrites(<<>>))
ShadowReturn == SBlock(ShadowWrites(<<SReturn(<<>>)>>))
ShadowBreak == SWhile(EBool(TRUE), SBlock(ShadowWrites(<<SBreak>>)))
WriteThenShadow(a) == SBlock(<<SAssign("x", ENum(a))>> \o ShadowWrites(<<>>))
ShadowStmts ==
    {ShadowNormal, ShadowReturn, ShadowBreak} \cup {WriteThenShadow(a) : a \in Lits}

-----------------------------------------------------------------------------
(* The driver: interp_program runs the entry statement, a Block, with      *)
(* in_loop = false; one action per statement of that block                 *)

NoStatement == [k |-> "None"]

Init ==
    /\ outer = EnvNew
    /\ env = EnvNew
    /\ out = <<>>
    /\ pc = "run"
    /\ progErr = NoErr
    /\ constPolicy \in {"reject", "allow"}
    /\ steps = 0
    /\ pre = EnvNew
    /\ preOut = <<>>
    /\ stmt = NoStatement
    /\ res = [value |-> Nil, cf |-> "Normal", err |-> NoErr]

\* one iteration of the entry block's loop over its statements
Exec(s) ==
    /\ pc = "run"
    /\ steps < MaxSteps
    /\ \E r \in {interp_statement(env, out, s, FALSE)} :
       LET t == BlockOnTag(r.cf, FALSE)
       IN /\ r.err \notin {CutOff, Unmodelled}
          /\ pre' = env
          /\ preOut' = out
          /\ stmt' = s
          /\ res' = [value |-> r.value, cf |-> r.cf, err |-> r.err]
          /\ env' = r.env
          /\ out' = r.out
          /\ steps' = steps + 1
          /\ IF ~IsOk(r)
             THEN /\ pc' = IF r.err = Panic THEN "panic" ELSE "error"
                  /\ progErr' = r.err
                  /\ outer' = outer
             ELSE CASE t.do = "next" -> pc' = "run" /\ progErr' = NoErr /\ outer' = outer
                    [] t.do = "exit" ->
                          /\ pc' = "done"
                          /\ progErr' = NoErr
                          /\ outer' = update_reassigned_entries(outer, r.env)
                    [] t.do = "fail" -> pc' = "error" /\ progErr' = t.err /\ outer' = outer
    /\ UNCHANGED constPolicy

ExecExpr == \E s \in ExprStmts : Exec(s)
ExecLet == \E s \in LetStmts : Exec(s)
ExecConst == \E s \in ConstStmts : Exec(s)
ExecAssign == \E s \in AssignStmts : Exec(s)
ExecIf == \E s \in IfStmts : Exec(s)
ExecWhile == \E s \in WhileStmts : Exec(s)
ExecReturn == \E s \in ReturnStmts : Exec(s)
ExecBreak == Exec(SBreak)
ExecContinue == Exec(SContinue)
ExecBlock == \E s \in BlockStmts : Exec(s)

\* the entry block has no statement left: merge and return the block value
Finish ==
    /\ pc = "run"
    /\ outer' = update_reassigned_entries(outer, env)
    /\ pc' = "done"
    /\ UNCHANGED <<env, out, progErr, constPolicy, steps, pre, preOut, stmt, res>>

Next ==
    \/ ExecExpr
    \/ ExecLet
    \/ ExecConst
    \/ ExecAssign
    \/ ExecIf
    \/ ExecWhile
    \/ ExecReturn
    \/ ExecBreak
    \/ ExecContinue
    \/ ExecBlock
    \/ Finish

Spec == Init /\ [][Next]_vars

\* the second specification: the same driver over the programs with lists,
\* builtins and operators
OpsLet == \E s \in OpsLetStmts : Exec(s)
OpsCall == \E s \in CallStmts : Exec(s)
OpsIndex == \E s \in IndexStmts : Exec(s)
OpsExit == \E s \in ExitStmts : Exec(s)
OpsTag == \E s \in TagStmts : Exec(s)
OpsCond == \E s \in CondStmts : Exec(s)
OpsArith == \E s \in ArithStmts : Exec(s)
OpsIncDec == \E s \in IncDecStmts : Exec(s)
OpsShadow == \E s \in ShadowStmts : Exec(s)

NextOps ==
    \/ OpsLet
    \/ OpsCall
    \/ OpsIndex
    \/ OpsExit
    \/ OpsTag
    \/ OpsCond
    \/ OpsArith
    \/ OpsIncDec
    \/ OpsShadow
    \/ Finish

SpecOps == Init /\ [][NextOps]_vars

-----------------------------------------------------------------------------
(* Scoping of blocks *)

\* C1: a Block that declares `let x = w` over an outer x and finishes
\* leaves the outer x as it was, and prints w inside
C1_ShadowingKeepsOuter ==
    \A w \in Lits :
        (stmt = BlockShadow(w) /\ Bound(pre, "x") /\ IsOk(res))
        => /\ env["x"].value = pre["x"].value
           /\ out = Append(preOut, ToString(w))

\* C2: a Block, at any nesting depth, that reassigns an outer Mutable x to w
\* completes and leaves the outer x equal to w
C2_ReassignmentEscapes ==
    \A w \in Lits, d \in BlockDepths :
        (stmt = BlockAssign(w, d) /\ Bound(pre, "x") /\ pre["x"].mut = "Mutable")
        => /\ IsOk(res) /\ res.cf = "Normal"
           /\ env["x"] = Entry(Num(w), "Mutable")

C2_Witness ==
    \E w \in Lits :
        /\ stmt = BlockAssign(w, 3)
        /\ Bound(pre, "x") /\ pre["x"].mut = "Mutable" /\ pre["x"].value # Num(w)

\* the statements that declare y inside a block and leave it with each tag
DeclaresY ==
    {BlockDeclare(w) : w \in Lits}
    \cup {BlockDeclareConst(0), BlockDeclareReturn(0), WhileDeclBreak(0), WhileDeclContinue}

\* C3: after a Block that declares a name y the outer environment does not
\* bind has exited, with any tag, y is still not bound there, Var(y) fails
\* with UnknownVariable, and the set of bound names is what it was
C3_DeclarationsDoNotEscape ==
    (stmt \in DeclaresY /\ ~Bound(pre, "y") /\ IsOk(res))
    => /\ ~Bound(env, "y")
       /\ DOMAIN env = DOMAIN pre
       /\ interp_expression(env, out, Y).err = UnknownVariable("y")

C3_Witness ==
    /\ stmt = WhileDeclContinue /\ IsOk(res)
    /\ ~Bound(pre, "y") /\ Bound(pre, "x") /\ pre["x"].value = Num(0)
    /\ env["x"].value = Num(MaxNum)

-----------------------------------------------------------------------------
(* Closures *)

\* f is bound to a Proc with the body of lambda `lam`
IsClosure(e, lam) ==
    /\ Bound(e, "f")
    /\ e["f"].value.tag = "Proc"
    /\ e["f"].value.params = lam.params
    /\ e["f"].value.body = lam.body

\* the environment the Proc bound to f captured
Captured(e) == e["f"].value.env

\* C4: a call of a Proc created while x = v returns v for x, whatever the
\* defining scope has reassigned x to since, also when the reassignment is
\* made just before the call
C4_ClosureSnapshot ==
    (IsClosure(pre, LamReadX) /\ Bound(Captured(pre), "x"))
    => /\ stmt = SExpr(CallF)
          => (IsOk(res) /\ res.value = Captured(pre)["x"].value /\ env = pre)
       /\ \A w \in Lits :
             (stmt = BlockAssignCall(w) /\ Bound(pre, "x") /\ pre["x"].mut = "Mutable")
             => /\ IsOk(res) /\ res.cf = "Return"
                /\ res.value = Captured(pre)["x"].value
                /\ env["x"].value = Num(w)

C4_Witness ==
    \E w \in Lits :
        /\ stmt = BlockAssignCall(w) /\ IsClosure(pre, LamReadX)
        /\ Bound(Captured(pre), "x") /\ Captured(pre)["x"].value # Num(w)
        /\ Bound(pre, "x") /\ env["x"].value = Num(w)
        /\ res.value = Captured(pre)["x"].value

\* C5: a call of a Proc whose body reassigns or increments a captured
\* Mutable x leaves the caller's environment, the Proc value in it included,
\* as it was, and a second call starts from the captured value again
C5_ClosureWritesStayInside ==
    \A lam \in {LamBumpX, LamIncX} :
        (/\ IsClosure(pre, lam)
         /\ Bound(Captured(pre), "x")
         /\ Captured(pre)["x"].mut = "Mutable"
         /\ Captured(pre)["x"].value.tag = "Num")
        => LET c == Captured(pre)["x"].value.n
           IN /\ stmt = SExpr(CallF)
                 => (IsOk(res) /\ env = pre /\ res.value = Num(c + 1))
              /\ stmt = BlockCallTwice
                 => /\ IsOk(res) /\ env = pre
                    /\ out = preOut \o <<ToString(c + 1), ToString(c + 1)>>

C5_Witness ==
    /\ stmt = BlockCallTwice /\ IsClosure(pre, LamBumpX)
    /\ Bound(Captured(pre), "x") /\ Bound(pre, "x")
    /\ Len(out) = Len(preOut) + 2

\* C6: the body of a called Proc resolves its parameters and the names it
\* captured; a name bound only in the caller's environment at the call is
\* unresolvable in the body, and the call fails with UnknownVariable
C6_LexicalScoping ==
    (stmt = SExpr(CallF1) /\ IsClosure(pre, LamParamY))
    => IF Bound(Captured(pre), "y")
       THEN Captured(pre)["y"].value.tag = "Num"
            => (IsOk(res) /\ res.value = Num(1 + Captured(pre)["y"].value.n))
       ELSE res.err = UnknownVariable("y") /\ pc = "error"

C6_Witness ==
    /\ stmt = SExpr(CallF1) /\ IsClosure(pre, LamParamY)
    /\ Bound(pre, "y") /\ ~Bound(Captured(pre), "y")
    /\ res.err = UnknownVariable("y")

-----------------------------------------------------------------------------
(* Short-circuit evaluation *)

\* the Bool a left operand of Lefts evaluates to, and what it prints
LeftBool(l) == l \in {EBool(TRUE), Says(4, TRUE)}
LeftOut(l) == IF l \in {Says(4, TRUE), Says(4, FALSE)} THEN <<"4">> ELSE <<>>

\* x is bound Mutable to a Num
NumX(e) == Bound(e, "x") /\ e["x"].mut = "Mutable" /\ e["x"].value.tag = "Num"

\* C7: `false && e` is Bool(false) and `true || e` is Bool(true) with no
\* effect of e (no print, no increment, no error); when the left operand
\* does not decide, e is evaluated exactly once, after the left operand
C7_ShortCircuit ==
    \A op \in LogicOps, l \in Lefts, r \in Effects :
        stmt = SExpr(EBinary(op, l, r))
        => IF (op = "LogicAnd") = ~LeftBool(l)
           THEN /\ IsOk(res) /\ res.value = Bool(LeftBool(l))
                /\ env = pre
                /\ out = preOut \o LeftOut(l)
           ELSE CASE r = Says(9, TRUE) ->
                        /\ IsOk(res) /\ res.value = Bool(TRUE)
                        /\ env = pre
                        /\ out = preOut \o LeftOut(l) \o <<"9">>
                  [] r = PostInc("x") ->
                        /\ out = preOut \o LeftOut(l)
                        /\ NumX(pre)
                           => /\ res.err = BadArg(pre["x"].value)
                              /\ env = [pre EXCEPT !["x"].value = Num(pre["x"].value.n + 1)]
                        /\ ~Bound(pre, "x") => res.err = UnknownVariable("x")
                  [] r = EVar("undefined") ->
                        /\ res.err = UnknownVariable("undefined")
                        /\ env = pre
                        /\ out = preOut \o LeftOut(l)

C7_Witness ==
    /\ stmt = SExpr(EBinary("LogicAnd", Says(4, FALSE), PostInc("x")))
    /\ NumX(pre)
    /\ IsOk(res) /\ res.value = Bool(FALSE)
    /\ out = Append(preOut, "4")

-----------------------------------------------------------------------------
(* Loops and control flow *)

RECURSIVE Repeat(_, _)
\* seq, k times
Repeat(seq, k) == IF k <= 0 THEN <<>> ELSE seq \o Repeat(seq, k - 1)

\* the iterations of a loop that increments x up to MaxNum
Rounds(e) == IF e["x"].value.n < MaxNum THEN MaxNum - e["x"].value.n ELSE 0

\* C8: a Break from the body ends the While at once with (Nil, Normal); a
\* Continue skips the rest of the body and the condition is evaluated again
\* before the body runs again; a While never returns the tag Break or
\* Continue
C8_WhileBreakContinue ==
    /\ (stmt \in WhileStmts /\ IsOk(res)) => res.cf \in {"Normal", "Return"}
    /\ (stmt = WhileBareBreak)
       => (IsOk(res) /\ res.value = Nil /\ res.cf = "Normal" /\ env = pre /\ out = preOut)
    /\ (stmt = WhileBreak /\ NumX(pre))
       => /\ IsOk(res) /\ res.value = Nil /\ res.cf = "Normal"
          /\ env = [pre EXCEPT !["x"].value = Num(pre["x"].value.n + 1)]
          /\ out = Append(preOut, "0")
    /\ (stmt = WhileContinue /\ NumX(pre))
       => /\ IsOk(res) /\ res.value = Nil /\ res.cf = "Normal"
          /\ env = [pre EXCEPT !["x"].value = Num(pre["x"].value.n + Rounds(pre))]
          /\ out = preOut \o Repeat(<<"0", "1">>, Rounds(pre)) \o <<"0">>
    /\ (stmt = WhileNestedContinue /\ NumX(pre))
       => /\ IsOk(res) /\ res.value = Nil /\ res.cf = "Normal"
          /\ env = [pre EXCEPT !["x"].value = Num(pre["x"].value.n + Rounds(pre))]
          /\ out = preOut

C8_Witness ==
    /\ stmt = WhileContinue /\ NumX(pre) /\ pre["x"].value = Num(0)
    /\ IsOk(res) /\ env["x"].value = Num(MaxNum)
    /\ Len(out) = Len(preOut) + 2 * MaxNum + 1

\* C9: a return inside a While, at any block depth, in a procedure body ends
\* the call: no further iteration, condition evaluation or statement after
\* the loop runs, and the Call has the returned value
C9_ReturnInLoopEndsCall ==
    \A d \in Depths :
        stmt = SExpr(ECall(LamLoopReturn(d), <<>>))
        => /\ IsOk(res) /\ res.value = Num(7) /\ res.cf = "Normal"
           /\ out = preOut \o <<"0", "1">>
           /\ env = pre

C9_Witness ==
    /\ stmt = SExpr(ECall(LamLoopReturn(2), <<>>))
    /\ res.value = Num(7)
    /\ out = preOut \o <<"0", "1">>

\* C10: a Block run with in_loop = false whose statement yields Break or
\* Continue fails with the not-in-loop error and writes nothing back; so
\* does a break in the block of a procedure body, also when the call is made
\* inside a While, which it does not end
C10_BreakOutsideLoop ==
    /\ (stmt = BlockBreak /\ NumX(pre))
       => (res.err = BreakNotInLoop /\ pc = "error" /\ env = pre)
    /\ (stmt = BlockContinue /\ NumX(pre))
       => (res.err = ContinueNotInLoop /\ pc = "error" /\ env = pre)
    /\ (stmt = SBreak) => (pc = "error" /\ progErr = BreakNotInLoop)
    /\ (stmt = SContinue) => (pc = "error" /\ progErr = ContinueNotInLoop)
    /\ (stmt \in {SExpr(CallF), WhileCallBreak} /\ IsClosure(pre, LamBreak))
       => /\ res.err = BreakNotInLoop /\ pc = "error" /\ env = pre
          /\ out = preOut \o (IF stmt = WhileCallBreak THEN <<"0">> ELSE <<>>)
    /\ (stmt \in {SExpr(CallF), WhileCallBreak} /\ IsClosure(pre, LamContinue))
       => /\ res.err = ContinueNotInLoop /\ pc = "error" /\ env = pre
          /\ out = preOut \o (IF stmt = WhileCallBreak THEN <<"0", "5">> ELSE <<"5">>)

C10_Witness ==
    /\ stmt = WhileCallBreak /\ IsClosure(pre, LamBreak)
    /\ res.err = BreakNotInLoop /\ pc = "error"
    /\ out = Append(preOut, "0")

-----------------------------------------------------------------------------
(* Errors of calls *)

\* the message of an arg-count mismatch of `name`
MismatchText(name, expected, actual) ==
    "procedure " \o name \o " expected " \o ToString(expected)
        \o " args, instead got " \o ToString(actual)

\* f is bound to a Proc
IsProc(e) == Bound(e, "f") /\ e["f"].value.tag = "Proc"

\* C11: every arg-count mismatch carries (callee name, expected count,
\* actual count): (name or "<lambda>", n, m) for a Call of a Proc with n
\* parameters on m # n arguments, (builtin name, 1, m) for is_empty and
\* is_nil on m # 1 arguments; the message reports the counts in those roles
C11_ArgMismatchFields ==
    \A m \in Counts :
        /\ (/\ stmt = SExpr(ECall(EVar("f"), Args(m)))
            /\ IsProc(pre) /\ Len(pre["f"].value.params) # m)
           => /\ res.err = ArgMismatch("f", Len(pre["f"].value.params), m)
              /\ ArgMismatchMessage(res.err)
                     = MismatchText("f", Len(pre["f"].value.params), m)
        /\ (stmt = SExpr(ECall(LamParamY, Args(m))) /\ m # 1)
           => /\ res.err = ArgMismatch("<lambda>", 1, m)
              /\ ArgMismatchMessage(res.err) = MismatchText("<lambda>", 1, m)
        /\ \A b \in TestBuiltins :
               (stmt = SExpr(EPrimitiveCall(b, Args(m))) /\ m # 1)
               => /\ res.err = ArgMismatch(BuiltinName(b), 1, m)
                  /\ ArgMismatchMessage(res.err) = MismatchText(BuiltinName(b), 1, m)

-----------------------------------------------------------------------------
(* Indexing *)

\* l is bound to a list
IsList(e) == Bound(e, "l") /\ e["l"].value.tag = "List"

\* C12: for a list of any length n >= 0 and an integer index i, Index
\* returns element i when 0 <= i <= n-1 and otherwise fails with
\* IndexOutOfBounds(i), and in no other way
C12_IndexBounds ==
    \A i \in Indices :
        (stmt = SExpr(EIndex(L, Idx(i))) /\ IsList(pre))
        => IF 0 <= i /\ i <= Len(pre["l"].value.items) - 1
           THEN IsOk(res) /\ res.value = pre["l"].value.items[i + 1] /\ env = pre
           ELSE res.err = IndexOutOfBounds(i)

\* C13: every failure of evaluation reaches the caller of interp_program
\* as an Err(RuntimeError); the process never aborts
C13_FailuresAreErrValues == pc # "panic"

-----------------------------------------------------------------------------
(* Early exits of blocks *)

\* e with x set to Num(n)
WithX(e, n) == [e EXCEPT !["x"].value = Num(n)]

\* C14: a Block left by Return, or by Break/Continue inside a loop, has
\* copied the reassignments made before the exit into the outer
\* environment exactly once, and has not run the statements after it
C14_MergeOnExit ==
    NumX(pre)
    => LET n == pre["x"].value.n
       IN /\ stmt = ExitReturn
             => /\ IsOk(res) /\ res.cf = "Return" /\ res.value = Num(n + 1)
                /\ env = WithX(pre, n + 1) /\ out = preOut
          /\ stmt = ExitNestedReturn
             => /\ IsOk(res) /\ res.cf = "Return" /\ res.value = Num(n + 2)
                /\ env = WithX(pre, n + 2) /\ out = preOut
          /\ stmt = ExitBreak
             => /\ IsOk(res) /\ res.cf = "Normal"
                /\ env = WithX(pre, n + 1) /\ out = preOut
          /\ (stmt = ExitContinue /\ n < MaxNum)
             => /\ IsOk(res) /\ res.cf = "Normal"
                /\ env = WithX(pre, MaxNum) /\ out = preOut

C14_Witness ==
    /\ stmt \in {ExitReturn, ExitBreak, ExitContinue}
    /\ NumX(pre) /\ pre["x"].value = Num(MaxNum - 1)
    /\ env["x"].value = Num(MaxNum)

-----------------------------------------------------------------------------
(* Control-flow tags of a procedure body *)

\* the value component of the body of a TagLambdas procedure
BodyValue(lam) == IF lam \in {LamBareExpr, LamBareReturn} THEN Num(7) ELSE Nil

\* C15: the value of a Call is the value component of its body whatever
\* the tag: a body that yields Break or Continue makes the Call return Nil
\* without error, and a While of the caller around the Call is neither
\* broken nor continued by it
C15_CallAbsorbsTag ==
    \A lam \in TagLambdas :
        /\ stmt = SExpr(ECall(lam, <<>>))
           => /\ IsOk(res) /\ res.cf = "Normal" /\ res.value = BodyValue(lam)
              /\ env = pre /\ out = preOut
        /\ (stmt = WhileCallTag(lam) /\ NumX(pre))
           => /\ IsOk(res) /\ res.cf = "Normal"
              /\ env = WithX(pre, IF pre["x"].value.n < MaxNum THEN MaxNum
                                  ELSE pre["x"].value.n)
              /\ out = preOut \o Repeat(<<to_string(BodyValue(lam)), "6">>, Rounds(pre))

C15_Witness ==
    /\ stmt \in {WhileCallTag(LamBareBreak), WhileCallTag(LamBareContinue),
                  WhileCallTag(LamIfBreak)}
    /\ NumX(pre) /\ pre["x"].value = Num(0)
    /\ Len(out) = Len(preOut) + 2 * MaxNum

-----------------------------------------------------------------------------
(* Conditions *)

\* the condition c, evaluated where the statement executed last started
CondOf(c) == interp_expression(pre, preOut, c)

\* C16: an If or a While whose condition evaluates to a value v that is
\* not a Bool fails with BadCondition(v), runs neither a branch nor the
\* body, and leaves the environment as the evaluation of the condition
\* left it
C16_NonBoolCondition ==
    \A c \in Conds :
        (stmt \in {CondIf(c), CondWhile(c)} /\ IsOk(CondOf(c))
            /\ CondOf(c).value.tag # "Bool")
        => /\ res.err = BadCondition(CondOf(c).value)
           /\ env = CondOf(c).env
           /\ out = CondOf(c).out

-----------------------------------------------------------------------------
(* Arithmetic operands *)

\* the value of a literal operand
ValueOf(operand) == interp_expression(EnvNew, <<>>, operand).value

\* the operand pairs an arithmetic operator accepts
AcceptedPair(op, l, r) ==
    \/ l.tag = "Num" /\ r.tag = "Num"
    \/ op = "Plus" /\ l.tag = r.tag /\ l.tag \in {"Str", "List"}

\* a value that is an operand of some accepted pair of op
Acceptable(op, v) == v.tag = "Num" \/ (op = "Plus" /\ v.tag \in {"Str", "List"})

\* C17: each of + - * / % on an operand pair that is not accepted fails
\* with BadArg carrying the first non-conforming operand: the left one if
\* it is not acceptable, otherwise the right one
C17_ArithmeticBadArg ==
    \A op \in ArithOps, l \in Operands, r \in Operands :
        (stmt = SExpr(EBinary(op, l, r)) /\ ~AcceptedPair(op, ValueOf(l), ValueOf(r)))
        => res.err = BadArg(IF Acceptable(op, ValueOf(l)) THEN ValueOf(r) ELSE ValueOf(l))

-----------------------------------------------------------------------------
(* Increment and decrement *)

\* what ++ and -- add to the variable
Delta(op) == IF op \in {"PreIncrement", "PostIncrement"} THEN 1 ELSE 0 - 1
PreForms == {"PreIncrement", "PreDecrement"}

\* C18: on x bound Mutable to Num(n), ++x and x++ leave x = n+1, --x and
\* x-- leave x = n-1, the pre-forms return the new value, the post-forms n,
\* and no other binding changes; an operand that is not a Var fails with
\* InvalidAssignmentTarget before it is evaluated; an x that is not a Num
\* fails with no reassignment
C18_IncrementDecrement ==
    \A op \in IncDecOps :
        /\ (stmt = SExpr(EUnary(op, X)) /\ NumX(pre))
           => /\ IsOk(res)
              /\ env = WithX(pre, pre["x"].value.n + Delta(op))
              /\ res.value = IF op \in PreForms THEN Num(pre["x"].value.n + Delta(op))
                              ELSE pre["x"].value
              /\ out = preOut
        /\ stmt = SExpr(EUnary(op, NotAVar))
           => res.err = InvalidAssignmentTarget /\ env = pre /\ out = preOut
        /\ (stmt = SExpr(EUnary(op, X)) /\ Bound(pre, "x") /\ pre["x"].value.tag # "Num")
           => ~IsOk(res) /\ env = pre /\ out = preOut

C18_Witness ==
    /\ stmt = SExpr(EUnary("PostDecrement", X))
    /\ NumX(pre) /\ pre["x"].value = Num(1) /\ Bound(pre, "l")
    /\ env["x"].value = Num(0) /\ res.value = Num(1)

-----------------------------------------------------------------------------
(* Writes to a shadowing binding *)

\* C19: a Block that declares `let x` over an outer x and then reassigns
\* and increments that inner x, left with any tag, leaves the outer x as it
\* was; a reassignment of the outer x made in the block before the `let x`
\* is the only write that reaches the outer binding
C19_ShadowWritesStayInside ==
    (Bound(pre, "x") /\ pre["x"].mut = "Mutable")
    => /\ stmt \in {ShadowNormal, ShadowReturn, ShadowBreak}
          => IsOk(res) /\ env = pre
       /\ \A a \in Lits : stmt = WriteThenShadow(a) => IsOk(res) /\ env = WithX(pre, a)

====
